---- MODULE Spec2Model ----
(***************************************************************************)
(* FinTrack (src/src/App.jsx): the history store of monthly snapshots, its *)
(* persistence in localStorage under STORAGE_KEY, the snapshot normalizer  *)
(* and the input session the snapshots are built from.                     *)
(*                                                                         *)
(* Encoding of JavaScript values                                           *)
(*   numbers   integers, plus the sentinels PosInf, NegInf and NaN         *)
(*   Null      JSON null (also a missing or non-numeric field: Number of   *)
(*             either is falsy, so `Number(x) || d` gives d for both)      *)
(*   EmptyStr  the empty string '' of a raw input field                    *)
(*   rates     savingsRate is a reduced fraction [n, d]; d = 0 encodes the *)
(*             non-finite values (n = 0 NaN, n = 1 Infinity, n = -1        *)
(*             -Infinity) and d = -1 encodes JSON null                     *)
(*   months    1..MaxMonth stand for "YYYY-MM" strings in lexicographic    *)
(*             order, 0 for '', NotString for a month that is no string    *)
(*   ids       0 for an id that is not a non-empty string, 1..NumBlobIds   *)
(*             for ids found in storage, larger values for makeId() results*)
(*   names     [b, lower, pad]: b = 0 is the empty name, lower tells the   *)
(*             lower-case spelling from the capitalised one, pad tells     *)
(*             surrounding white space                                     *)
(***************************************************************************)
EXTENDS Integers, Sequences, FiniteSets, TLC

\* ---------------------------------------------------------------- bounds
MaxMonth == 2
MaxNow == 2
MaxIds == 1
MaxBlobLen == 2
NumBlobIds == 2
MaxViewLen == 3
MaxAmount == 2
MaxIndex == 4

\* ------------------------------------------------------ JavaScript values
PosInf == 1000000
NegInf == -1000000
NaN == 2000000
Null == 3000000
EmptyStr == 4000000
NotString == -1

IsFinite(x) == x \notin {PosInf, NegInf, NaN}

\* Number(v) for the values a field can hold
ToNumber(v) == IF v = Null \/ v = EmptyStr THEN 0 ELSE v

\* Number(v) || 0
NumberOrZero(v) == IF ToNumber(v) = NaN THEN 0 ELSE ToNumber(v)

\* a < b on JavaScript numbers: false when either is NaN
Lt(a, b) == a # NaN /\ b # NaN /\ a < b

\* a + b on JavaScript numbers
Add(a, b) ==
  IF a = NaN \/ b = NaN THEN NaN
  ELSE IF a = PosInf THEN (IF b = NegInf THEN NaN ELSE PosInf)
  ELSE IF a = NegInf THEN (IF b = PosInf THEN NaN ELSE NegInf)
  ELSE IF b = PosInf \/ b = NegInf THEN b
  ELSE a + b

Neg(a) == IF a = NaN THEN NaN ELSE 0 - a

\* a - b on JavaScript numbers
Sub(a, b) == Add(a, Neg(b))

RECURSIVE Gcd(_, _)
Gcd(a, b) == IF b = 0 THEN a ELSE Gcd(b, a % b)

Abs(a) == IF a < 0 THEN 0 - a ELSE a

RateZero == [n |-> 0, d |-> 1]
RateNaN == [n |-> 0, d |-> 0]
RateNull == [n |-> 0, d |-> -1]

\* (savings / income) * 100 for income > 0
RateOf(savings, income) ==
  IF savings = NaN THEN RateNaN
  ELSE IF income = PosInf
    THEN (IF IsFinite(savings) THEN RateZero ELSE RateNaN)
  ELSE IF savings = PosInf THEN [n |-> 1, d |-> 0]
  ELSE IF savings = NegInf THEN [n |-> -1, d |-> 0]
  ELSE LET g == Gcd(Abs(savings * 100), income)
       IN [n |-> (savings * 100) \div g, d |-> income \div g]

\* String(v) of a stored number, as the input field holds it: an input is written
\* as the number its text denotes, and the text of null denotes none
StringOf(v) == IF v = Null THEN NaN ELSE v

\* Number(rate) || 0
RateOrZero(r) == IF r = RateNaN \/ r = RateNull THEN RateZero ELSE r

\* ------------------------------------------------------------------ names
Name(b, lower) == [b |-> b, lower |-> lower, pad |-> FALSE]
EmptyName == [b |-> 0, lower |-> TRUE, pad |-> FALSE]
Padded(nm) == [nm EXCEPT !.pad = TRUE]

\* String.prototype.trim
Trim(nm) == [nm EXCEPT !.pad = FALSE]

\* String.prototype.toLowerCase
ToLowerCase(nm) == [nm EXCEPT !.lower = TRUE]

DEFAULT_CATEGORIES ==
  << Name(1, FALSE), Name(2, FALSE), Name(3, FALSE),
     Name(4, FALSE), Name(5, FALSE), Name(6, FALSE) >>

\* the name of the category that stands for none
NotAvailable == Name(8, FALSE)

\* --------------------------------------------------------------- makeId
\* makeId(): the k-th identifier generated; never an identifier that storage held
makeId(k) == NumBlobIds + k

\* ------------------------------------------------- the persisted blob, JSON
\* localStorage[STORAGE_KEY] is text.  The model keeps its kind and, for the text
\* of a JSON array, the parsed elements:
\*   absent    no item under the key (getItem returns null)
\*   empty     the empty string
\*   garbage   text JSON.parse rejects
\*   nonarray  JSON text of a value that is no array, such as "not an array"
\*   array     JSON text of an array; items are its elements
\* An element is [obj, id, month, income, targetSavings, catsArr, categories,
\* totalExpense, savings, savingsRate, createdAt]: obj tells an object from any
\* other JSON value, catsArr tells whether categories is an array.  A number
\* literal beyond the double range (1e999) parses to PosInf.
Blob(kind, items) == [kind |-> kind, items |-> items]

\* JSON.stringify of a number: NaN and the infinities are written as null
JsonNumber(x) == IF IsFinite(x) THEN x ELSE Null

JsonRate(r) == IF r.d = 0 THEN RateNull ELSE r

JsonCategory(c) == [name |-> c.name, amount |-> JsonNumber(c.amount)]

JsonSnapshot(s) ==
  [ obj |-> TRUE, id |-> s.id, month |-> s.month,
    income |-> JsonNumber(s.income),
    targetSavings |-> JsonNumber(s.targetSavings),
    catsArr |-> TRUE,
    categories |-> [i \in DOMAIN s.categories |-> JsonCategory(s.categories[i])],
    totalExpense |-> JsonNumber(s.totalExpense),
    savings |-> JsonNumber(s.savings),
    savingsRate |-> JsonRate(s.savingsRate),
    createdAt |-> JsonNumber(s.createdAt) ]

\* JSON.stringify(historySnapshots), as the blob it becomes
JSONstringify(history) ==
  Blob("array", [i \in DOMAIN history |-> JsonSnapshot(history[i])])

\* ------------------------------------------------------ normalizeSnapshot
\* the value normalizeSnapshot returns for a non-object: null
NullSnapshot ==
  [ id |-> 0, month |-> 0, income |-> 0, targetSavings |-> 0, categories |-> << >>,
    totalExpense |-> 0, savings |-> 0, savingsRate |-> RateZero, createdAt |-> 0 ]

\* .map(category => ({name: String(category?.name || '').trim(),
\*                    amount: Number(category?.amount) || 0}))
NormalizeCategory(c) == [name |-> Trim(c.name), amount |-> NumberOrZero(c.amount)]

\* .filter(category => category.name)
NormalizedCategories(raw) ==
  IF raw.catsArr
    THEN SelectSeq([i \in DOMAIN raw.categories |-> NormalizeCategory(raw.categories[i])],
                   LAMBDA c : c.name # EmptyName)
    ELSE << >>

\* does normalizeSnapshot call makeId() for this element
NeedsId(raw) == raw.obj /\ raw.id = 0

\* normalizeSnapshot(raw), where freshId is what makeId() returns if called and
\* clock is what Date.now() returns
normalizeSnapshot(raw, freshId, clock) ==
  IF ~raw.obj THEN NullSnapshot
  ELSE
    [ id |-> IF raw.id # 0 THEN raw.id ELSE freshId,
      month |-> IF raw.month # NotString THEN raw.month ELSE 0,
      income |-> NumberOrZero(raw.income),
      targetSavings |-> NumberOrZero(raw.targetSavings),
      categories |-> NormalizedCategories(raw),
      totalExpense |-> NumberOrZero(raw.totalExpense),
      savings |-> NumberOrZero(raw.savings),
      savingsRate |-> RateOrZero(raw.savingsRate),
      createdAt |-> IF NumberOrZero(raw.createdAt) # 0
                      THEN NumberOrZero(raw.createdAt) ELSE clock ]

\* parsed.map(normalizeSnapshot): idc identifiers were generated before the call
RECURSIVE MapNormalize(_, _, _)
MapNormalize(items, idc, clock) ==
  IF items = << >> THEN << >>
  ELSE << normalizeSnapshot(Head(items), makeId(idc + 1), clock) >>
       \o MapNormalize(Tail(items), IF NeedsId(Head(items)) THEN idc + 1 ELSE idc, clock)

\* the number of makeId() calls parsed.map(normalizeSnapshot) makes
GeneratedIds(items) == Len(SelectSeq(items, NeedsId))

\* .filter(snapshot => snapshot && snapshot.month)
Retained(s) == s # NullSnapshot /\ s.month # 0

\* loadHistoryFromStorage whose catch returns [] without the setItem
loadHistoryNoReset(blob, idc, clock) ==
  IF blob.kind # "array"
    THEN [history |-> << >>, storage |-> blob, ids |-> idc]
  ELSE [ history |-> SelectSeq(MapNormalize(blob.items, idc, clock), Retained),
         storage |-> blob,
         ids |-> idc + GeneratedIds(blob.items) ]

\* loadHistoryFromStorage that throws on an element it cannot keep, so that one
\* malformed record discards the whole blob
loadHistoryAllOrNothing(blob, idc, clock) ==
  IF blob.kind \in {"absent", "empty"}
    THEN [history |-> << >>, storage |-> blob, ids |-> idc]
  ELSE IF blob.kind # "array"
         \/ \E i \in DOMAIN blob.items :
              ~Retained(normalizeSnapshot(blob.items[i], makeId(idc + 1), clock))
    THEN [history |-> << >>, storage |-> JSONstringify(<< >>), ids |-> idc]
  ELSE [ history |-> MapNormalize(blob.items, idc, clock),
         storage |-> blob,
         ids |-> idc + GeneratedIds(blob.items) ]

\* loadHistoryFromStorage: [history: the value returned, storage: the blob after
\* the call, ids: identifiers generated so far]
loadHistoryFromStorage(blob, idc, clock) ==
  IF blob.kind \in {"absent", "empty"}
    THEN [history |-> << >>, storage |-> blob, ids |-> idc]
  ELSE IF blob.kind # "array"
    THEN [history |-> << >>, storage |-> JSONstringify(<< >>), ids |-> idc]
  ELSE [ history |-> SelectSeq(MapNormalize(blob.items, idc, clock), Retained),
         storage |-> blob,
         ids |-> idc + GeneratedIds(blob.items) ]

\* ------------------------------------------------------- byMostRecentMonth
\* MonthCompare with its operands exchanged: the oldest month first
MonthCompareOldestFirst(a, b) == a.month - b.month

\* b.month.localeCompare(a.month): negative, zero or positive
MonthCompare(a, b) == b.month - a.month

\* byMostRecentMonth(a, b) < 0: a sorts before b.  NaN (Infinity - Infinity)
\* counts as 0 in Array.prototype.sort
Before(a, b) ==
  IF MonthCompare(a, b) # 0 THEN MonthCompare(a, b) < 0
  ELSE Lt(Sub(b.createdAt, a.createdAt), 0)

\* Array.prototype.sort is stable: an element goes after the elements that do not
\* sort after it
RECURSIVE InsertSorted(_, _)
InsertSorted(sorted, x) ==
  IF sorted = << >> THEN << x >>
  ELSE IF Before(x, Head(sorted)) THEN << x >> \o sorted
  ELSE << Head(sorted) >> \o InsertSorted(Tail(sorted), x)

RECURSIVE SortMostRecent(_)
SortMostRecent(list) ==
  IF list = << >> THEN << >>
  ELSE InsertSorted(SortMostRecent(SubSeq(list, 1, Len(list) - 1)), list[Len(list)])


\* ------------------------------------------------------------------ state
VARIABLES
  storage,           \* localStorage[STORAGE_KEY]
  historySnapshots,  \* useState(() => loadHistoryFromStorage())
  income,            \* raw input
  targetSavings,     \* raw input
  selectedMonth,
  categories,        \* sequence of [name, amount], amount a raw input
  newCategory,
  phase,             \* "boot": App not yet mounted; "ready": mounted
  effectPending,     \* the persist effect is scheduled: historySnapshots changed in the last render
  now,               \* Date.now()
  ids,               \* makeId() calls so far
  last               \* the last operation and how it ended

session == << income, targetSavings, selectedMonth, categories, newCategory >>
vars == << storage, historySnapshots, income, targetSavings, selectedMonth, categories,
           newCategory, phase, effectPending, now, ids, last >>

\* last: op the operation, res how it ended, arg its input (the snapshot id given to
\* a delete; for a save or a clear 1 when the user would confirm and 0 when not)
Done(op, res, arg) == [op |-> op, res |-> res, arg |-> arg]
Answer(confirm) == IF confirm THEN 1 ELSE 0

\* ----------------------------------------------------------------- totals
parsedIncome == NumberOrZero(income)
parsedTargetSavings == NumberOrZero(targetSavings)

categoryTotals ==
  [i \in DOMAIN categories |->
     [name |-> categories[i].name, amount |-> NumberOrZero(categories[i].amount)]]

RECURSIVE SumAmounts(_)
SumAmounts(list) ==
  IF list = << >> THEN 0 ELSE Add(SumAmounts(SubSeq(list, 1, Len(list) - 1)), list[Len(list)].amount)

totalExpense == SumAmounts(categoryTotals)

\* savings with its operands exchanged
savingsOfExpense == Sub(totalExpense, parsedIncome)

savings == Sub(parsedIncome, totalExpense)
savingsRate == IF Lt(0, parsedIncome) THEN RateOf(savings, parsedIncome) ELSE RateZero

\* the reducer of highestCategory that lets a later category of equal amount win
HigherOrLater(highest, current) ==
  IF Lt(current.amount, highest.amount) THEN highest ELSE current

\* (highest, current) => (current.amount > highest.amount ? current : highest)
Higher(highest, current) ==
  IF Lt(highest.amount, current.amount) THEN current ELSE highest

\* list.reduce(Higher, highest)
RECURSIVE ReduceHigher(_, _)
ReduceHigher(list, highest) ==
  IF list = << >> THEN highest
  ELSE ReduceHigher(Tail(list), Higher(highest, Head(list)))

highestCategory == ReduceHigher(categoryTotals, [name |-> NotAvailable, amount |-> 0])

\* validationErrors: one entry per message
IsNegativeInput(v) == v # EmptyStr /\ Lt(ToNumber(v), 0)

\* validationErrors without the check of targetSavings
validationErrorsNoTarget ==
  (IF IsNegativeInput(income) THEN << [field |-> "income", name |-> EmptyName] >> ELSE << >>)
  \o [i \in DOMAIN SelectSeq(categories, LAMBDA c : IsNegativeInput(c.amount)) |->
        [field |-> "category",
         name |-> SelectSeq(categories, LAMBDA c : IsNegativeInput(c.amount))[i].name]]

validationErrors ==
  (IF IsNegativeInput(income) THEN << [field |-> "income", name |-> EmptyName] >> ELSE << >>)
  \o (IF IsNegativeInput(targetSavings)
        THEN << [field |-> "targetSavings", name |-> EmptyName] >> ELSE << >>)
  \o [i \in DOMAIN SelectSeq(categories, LAMBDA c : IsNegativeInput(c.amount)) |->
        [field |-> "category",
         name |-> SelectSeq(categories, LAMBDA c : IsNegativeInput(c.amount))[i].name]]

\* ------------------------------------------------------------ history views
\* sortedHistory = [...historySnapshots].sort(byMostRecentMonth)
sortedHistory == SortMostRecent(historySnapshots)

\* the comparator of trendData is negative: a sorts before b.
\* a.month.localeCompare(b.month) || a.createdAt - b.createdAt
TrendBefore(a, b) ==
  IF a.month - b.month # 0 THEN a.month - b.month < 0
  ELSE Lt(Sub(a.createdAt, b.createdAt), 0)

RECURSIVE InsertTrend(_, _)
InsertTrend(sorted, x) ==
  IF sorted = << >> THEN << x >>
  ELSE IF TrendBefore(x, Head(sorted)) THEN << x >> \o sorted
  ELSE << Head(sorted) >> \o InsertTrend(Tail(sorted), x)

RECURSIVE SortTrend(_)
SortTrend(list) ==
  IF list = << >> THEN << >>
  ELSE InsertTrend(SortTrend(SubSeq(list, 1, Len(list) - 1)), list[Len(list)])

\* .map(snapshot => ({ month: snapshot.month, savings: snapshot.savings }))
TrendPair(snapshot) == [month |-> snapshot.month, savings |-> snapshot.savings]

trendData == [i \in DOMAIN historySnapshots |-> TrendPair(SortTrend(historySnapshots)[i])]

\* ------------------------------------------------------------ input domains
Months == 1 .. MaxMonth
IncomeValues == {EmptyStr, -1, 3}
TargetValues == {EmptyStr, -1}
AmountValues == {EmptyStr, -1}
DefaultSession == [i \in DOMAIN DEFAULT_CATEGORIES |-> [name |-> DEFAULT_CATEGORIES[i], amount |-> EmptyStr]]

Food(amount) == [name |-> Name(1, FALSE), amount |-> amount]

\* a stored record: one month of income inc with 1 spent on Food
Stored(id, month, inc, created) ==
  [ obj |-> TRUE, id |-> id, month |-> month, income |-> inc, targetSavings |-> 1,
    catsArr |-> TRUE, categories |-> << Food(1) >>, totalExpense |-> 1,
    savings |-> 1, savingsRate |-> [n |-> 50, d |-> 1], createdAt |-> created ]

\* the blobs a session of Spec starts from: no item, text that is no array, one
\* month, two months, one month twice, one id twice, a record without id and
\* createdAt and with a negative income beside one with an income of 1e999
SessionBlobs ==
  { Blob("absent", << >>),
    Blob("nonarray", << >>),
    Blob("array", << Stored(1, 1, 2, 1) >>),
    Blob("array", << Stored(1, 2, 2, 1), Stored(2, 1, 2, 1) >>),
    Blob("array", << Stored(1, 1, 2, 1), Stored(2, 1, 2, 1) >>),
    Blob("array", << Stored(1, 1, 2, 1), Stored(1, 2, 2, 1) >>),
    Blob("array", << Stored(0, 1, -1, Null), Stored(1, 2, PosInf, 1) >>) }

\* ------------------------------------------------------------------- Init
Init ==
  /\ storage \in SessionBlobs
  /\ historySnapshots = << >>
  /\ income = EmptyStr
  /\ targetSavings = EmptyStr
  /\ selectedMonth \in Months
  /\ categories = DefaultSession
  /\ newCategory = EmptyName
  /\ phase = "boot"
  /\ effectPending = FALSE
  /\ now = 1
  /\ ids = 0
  /\ last = Done("none", "none", 0)

\* ---------------------------------------------------------------- actions
\* App mounts: useState(() => loadHistoryFromStorage()); the persist effect runs
\* after the first render
Mount ==
  /\ phase = "boot"
  /\ LET r == loadHistoryFromStorage(storage, ids, now)
     IN /\ historySnapshots' = r.history
        /\ storage' = r.storage
        /\ ids' = r.ids
  /\ phase' = "ready"
  /\ effectPending' = TRUE
  /\ last' = Done("load", storage.kind, 0)
  /\ UNCHANGED << session, now >>

\* useEffect(() => localStorage.setItem(STORAGE_KEY, JSON.stringify(historySnapshots)),
\*           [historySnapshots])
PersistEffect ==
  /\ phase = "ready"
  /\ effectPending
  /\ storage' = JSONstringify(historySnapshots)
  /\ effectPending' = FALSE
  /\ UNCHANGED << historySnapshots, session, phase, now, ids, last >>

\* an event handler runs on a mounted App whose effects have been flushed
Idle == phase = "ready" /\ ~effectPending

\* the first snapshot with snapshot.month === selectedMonth: its index, or 0
FindByMonth(history, month) ==
  IF \E i \in DOMAIN history : history[i].month = month
    THEN CHOOSE i \in DOMAIN history :
           /\ history[i].month = month
           /\ \A j \in 1 .. (i - 1) : history[j].month # month
    ELSE 0

\* the snapshot object handleSaveSnapshot builds
BuiltSnapshot(id) ==
  [ id |-> id, month |-> selectedMonth, income |-> parsedIncome,
    targetSavings |-> parsedTargetSavings, categories |-> categoryTotals,
    totalExpense |-> totalExpense, savings |-> savings, savingsRate |-> savingsRate,
    createdAt |-> now ]

\* previous.map(entry => entry.id === existingSnapshot.id ? snapshot : entry)
ReplaceById(previous, id, snapshot) ==
  [i \in DOMAIN previous |-> IF previous[i].id = id THEN snapshot ELSE previous[i]]

\* shouldOverwrite that does not wait for the answer
shouldOverwriteAlways(k, confirm) == TRUE

\* shouldOverwrite = !existingSnapshot || window.confirm(...); k is the index of the
\* existing snapshot, or 0
shouldOverwrite(k, confirm) == k = 0 \/ confirm

\* handleSaveSnapshot; confirm is the answer window.confirm gives if asked
handleSaveSnapshot(confirm) ==
  /\ Idle
  /\ LET k == FindByMonth(historySnapshots, selectedMonth)
     IN IF selectedMonth = 0 \/ validationErrors # << >>
          THEN /\ last' = Done("save", "rejected", Answer(confirm))
               /\ UNCHANGED << historySnapshots, effectPending, ids >>
        ELSE IF ~shouldOverwrite(k, confirm)
          THEN /\ last' = Done("save", "declined", Answer(confirm))
               /\ UNCHANGED << historySnapshots, effectPending, ids >>
        ELSE IF k # 0
          THEN /\ historySnapshots' =
                    SortMostRecent(ReplaceById(historySnapshots, historySnapshots[k].id,
                                               BuiltSnapshot(historySnapshots[k].id)))
               /\ effectPending' = TRUE
               /\ last' = Done("save", "overwritten", Answer(confirm))
               /\ UNCHANGED ids
        ELSE /\ ids < MaxIds
             /\ historySnapshots' =
                  SortMostRecent(<< BuiltSnapshot(makeId(ids + 1)) >> \o historySnapshots)
             /\ ids' = ids + 1
             /\ effectPending' = TRUE
             /\ last' = Done("save", "added", Answer(confirm))
  /\ UNCHANGED << storage, session, phase, now >>

\* handleDeleteSnapshot that removes the entries from the array in place: the
\* state keeps its identity, so the persist effect does not run
handleDeleteInPlace(snapshotId) ==
  /\ phase = "ready" /\ ~effectPending
  /\ historySnapshots' = SelectSeq(historySnapshots, LAMBDA s : s.id # snapshotId)
  /\ last' = Done("delete",
                  IF \E i \in DOMAIN historySnapshots : historySnapshots[i].id = snapshotId
                    THEN "removed" ELSE "absent",
                  snapshotId)
  /\ UNCHANGED << storage, session, phase, effectPending, now, ids >>

\* handleDeleteSnapshot with the filter's test the wrong way round
handleDeleteKeepsMatch(snapshotId) ==
  /\ phase = "ready" /\ ~effectPending
  /\ historySnapshots' = SelectSeq(historySnapshots, LAMBDA s : s.id = snapshotId)
  /\ effectPending' = TRUE
  /\ last' = Done("delete",
                  IF \E i \in DOMAIN historySnapshots : historySnapshots[i].id = snapshotId
                    THEN "removed" ELSE "absent",
                  snapshotId)
  /\ UNCHANGED << storage, session, phase, now, ids >>

\* handleDeleteSnapshot(snapshotId)
handleDeleteSnapshot(snapshotId) ==
  /\ Idle
  /\ historySnapshots' = SelectSeq(historySnapshots, LAMBDA s : s.id # snapshotId)
  /\ effectPending' = TRUE
  /\ last' = Done("delete",
                  IF \E i \in DOMAIN historySnapshots : historySnapshots[i].id = snapshotId
                    THEN "removed" ELSE "absent",
                  snapshotId)
  /\ UNCHANGED << storage, session, phase, now, ids >>

\* handleClearHistory with the test of the answer the wrong way round
handleClearInverted(confirm) ==
  /\ phase = "ready" /\ ~effectPending
  /\ IF Len(historySnapshots) = 0
       THEN /\ last' = Done("clear", "empty", IF confirm THEN 1 ELSE 0)
            /\ UNCHANGED << historySnapshots, effectPending >>
     ELSE IF confirm
       THEN /\ last' = Done("clear", "declined", IF confirm THEN 1 ELSE 0)
            /\ UNCHANGED << historySnapshots, effectPending >>
     ELSE /\ historySnapshots' = << >>
          /\ effectPending' = TRUE
          /\ last' = Done("clear", "cleared", IF confirm THEN 1 ELSE 0)
  /\ UNCHANGED << storage, session, phase, now, ids >>

\* handleClearHistory; confirm is the answer window.confirm gives if asked
handleClearHistory(confirm) ==
  /\ Idle
  /\ IF Len(historySnapshots) = 0
       THEN /\ last' = Done("clear", "empty", Answer(confirm))
            /\ UNCHANGED << historySnapshots, effectPending >>
     ELSE IF ~confirm
       THEN /\ last' = Done("clear", "declined", Answer(confirm))
            /\ UNCHANGED << historySnapshots, effectPending >>
     ELSE /\ historySnapshots' = << >>
          /\ effectPending' = TRUE
          /\ last' = Done("clear", "cleared", Answer(confirm))
  /\ UNCHANGED << storage, session, phase, now, ids >>

\* onChange handlers of the input fields
setIncome(v) ==
  /\ Idle
  /\ income' = v
  /\ last' = Done("input", "set", 0)
  /\ UNCHANGED << storage, historySnapshots, targetSavings, selectedMonth, categories,
                  newCategory, phase, effectPending, now, ids >>

setTargetSavings(v) ==
  /\ Idle
  /\ targetSavings' = v
  /\ last' = Done("input", "set", 0)
  /\ UNCHANGED << storage, historySnapshots, income, selectedMonth, categories,
                  newCategory, phase, effectPending, now, ids >>

setSelectedMonth(m) ==
  /\ Idle
  /\ selectedMonth' = m
  /\ last' = Done("input", "set", 0)
  /\ UNCHANGED << storage, historySnapshots, income, targetSavings, categories,
                  newCategory, phase, effectPending, now, ids >>

updateCategoryAmount(index, value) ==
  /\ Idle
  /\ index \in DOMAIN categories
  /\ categories' = [i \in DOMAIN categories |->
                      IF i = index THEN [categories[i] EXCEPT !.amount = value]
                      ELSE categories[i]]
  /\ last' = Done("input", "set", 0)
  /\ UNCHANGED << storage, historySnapshots, income, targetSavings, selectedMonth,
                  newCategory, phase, effectPending, now, ids >>

\* onChange of the text field of the new category
setNewCategory(nm) ==
  /\ Idle
  /\ newCategory' = nm
  /\ last' = Done("input", "set", 0)
  /\ UNCHANGED << storage, historySnapshots, income, targetSavings, selectedMonth,
                  categories, phase, effectPending, now, ids >>

\* addCategory
addCategory ==
  /\ Idle
  /\ LET cleanName == Trim(newCategory)
     IN IF cleanName = EmptyName
          THEN UNCHANGED << categories, newCategory >>
        ELSE IF \E i \in DOMAIN categories :
                  ToLowerCase(categories[i].name) = ToLowerCase(cleanName)
          THEN UNCHANGED << categories, newCategory >>
        ELSE /\ categories' = Append(categories, [name |-> cleanName, amount |-> EmptyStr])
             /\ newCategory' = EmptyName
  /\ last' = Done("input", "set", 0)
  /\ UNCHANGED << storage, historySnapshots, income, targetSavings, selectedMonth,
                  phase, effectPending, now, ids >>

\* removeCategory(index); the Remove button of a default category is disabled
removeCategory(index) ==
  /\ Idle
  /\ index \in DOMAIN categories
  /\ \A d \in DOMAIN DEFAULT_CATEGORIES : DEFAULT_CATEGORIES[d] # categories[index].name
  /\ categories' = [i \in 1 .. (Len(categories) - 1) |->
                      IF i < index THEN categories[i] ELSE categories[i + 1]]
  /\ last' = Done("input", "set", 0)
  /\ UNCHANGED << storage, historySnapshots, income, targetSavings, selectedMonth,
                  newCategory, phase, effectPending, now, ids >>

\* handleLoadSnapshot(snapshot) on the k-th snapshot of the history
handleLoadSnapshot(k) ==
  /\ Idle
  /\ k \in DOMAIN historySnapshots
  /\ LET snapshot == historySnapshots[k]
     IN /\ selectedMonth' = snapshot.month
        /\ income' = StringOf(snapshot.income)
        /\ targetSavings' = StringOf(IF snapshot.targetSavings \in {0, NaN}
                                       THEN 0 ELSE snapshot.targetSavings)
        /\ categories' = [i \in DOMAIN snapshot.categories |->
                            [name |-> snapshot.categories[i].name,
                             amount |-> StringOf(snapshot.categories[i].amount)]]
        /\ newCategory' = EmptyName
  /\ last' = Done("input", "set", 0)
  /\ UNCHANGED << storage, historySnapshots, phase, effectPending, now, ids >>

\* time passes
Tick ==
  /\ now < MaxNow
  /\ now' = now + 1
  /\ UNCHANGED << storage, historySnapshots, session, phase, effectPending, ids, last >>

\* the page is reloaded: a new session over the same storage
Reload ==
  /\ Idle
  /\ phase' = "boot"
  /\ historySnapshots' = << >>
  /\ income' = EmptyStr
  /\ targetSavings' = EmptyStr
  /\ selectedMonth' \in Months
  /\ categories' = DefaultSession
  /\ newCategory' = EmptyName
  /\ last' = Done("none", "none", 0)
  /\ UNCHANGED << storage, effectPending, now, ids >>

Next ==
  \/ Mount
  \/ PersistEffect
  \/ \E c \in BOOLEAN : handleSaveSnapshot(c)
  \/ \E id \in 1 .. (NumBlobIds + MaxIds) : handleDeleteSnapshot(id)
  \/ \E c \in BOOLEAN : handleClearHistory(c)
  \/ \E v \in IncomeValues : setIncome(v)
  \/ \E m \in 0 .. MaxMonth : setSelectedMonth(m)
  \/ Tick
  \/ Reload

Spec == Init /\ [][Next]_vars

\* the whole input form, over the storage of a first visit or of one saved month
InputBlobs == { Blob("absent", << >>), Blob("array", << Stored(1, 1, 2, 1) >>) }

InitInputs == Init /\ storage \in InputBlobs

NextInputs ==
  \/ Next
  \/ \E v \in TargetValues : setTargetSavings(v)
  \/ \E v \in AmountValues : updateCategoryAmount(1, v)

SpecInputs == InitInputs /\ [][NextInputs]_vars

\* loading, over every blob of at most MaxBlobLen elements drawn from RawSamples
NonObject ==
  [ obj |-> FALSE, id |-> 0, month |-> NotString, income |-> Null, targetSavings |-> Null,
    catsArr |-> FALSE, categories |-> << >>, totalExpense |-> Null, savings |-> Null,
    savingsRate |-> RateNull, createdAt |-> Null ]

WithCategories(raw, isArray, cats) ==
  [raw EXCEPT !.catsArr = isArray, !.categories = cats]

RawSamples ==
  { Stored(id, m, inc, cr) :
      id \in {0, 1}, m \in {NotString, 0, 1}, inc \in {-1, PosInf}, cr \in {Null, 1} }
  \cup { NonObject,
         Stored(2, 2, 2, 2),
         WithCategories(Stored(2, 2, 2, 2), FALSE, << >>),
         WithCategories(Stored(2, 2, 2, 2), TRUE,
                        << [name |-> Padded(Name(1, FALSE)), amount |-> Null],
                           [name |-> Padded(EmptyName), amount |-> 1],
                           [name |-> Name(1, TRUE), amount |-> -1] >>) }

RECURSIVE SeqsUpTo(_, _)
SeqsUpTo(S, n) ==
  IF n = 0 THEN { << >> }
  ELSE SeqsUpTo(S, n - 1) \cup { Append(q, x) : q \in SeqsUpTo(S, n - 1), x \in S }

LoadBlobs ==
  { Blob(k, << >>) : k \in {"absent", "empty", "garbage", "nonarray"} }
  \cup { Blob("array", q) : q \in SeqsUpTo(RawSamples, MaxBlobLen) }

InitLoad ==
  /\ storage \in LoadBlobs
  /\ historySnapshots = << >>
  /\ income = EmptyStr
  /\ targetSavings = EmptyStr
  /\ selectedMonth = 1
  /\ categories = DefaultSession
  /\ newCategory = EmptyName
  /\ phase = "boot"
  /\ effectPending = FALSE
  /\ now = 1
  /\ ids = 0
  /\ last = Done("none", "none", 0)

NextLoad ==
  \/ Mount
  \/ PersistEffect
  \/ Tick
  \/ Reload

SpecLoad == InitLoad /\ [][NextLoad]_vars

\* the views of the history, over every blob of at most MaxViewLen records that
\* differ in month, createdAt (1e999 included) and savings; the records carry no
\* id, so loading gives each a fresh one
ViewMonths == 1 .. (MaxMonth + 1)

ViewRecord(m, cr, sv) == [Stored(0, m, 2, cr) EXCEPT !.savings = sv]

ViewRecords == { ViewRecord(m, cr, sv) : m \in ViewMonths, cr \in {1, PosInf}, sv \in {1, 2} }

InitViews ==
  /\ storage \in { Blob("array", q) : q \in SeqsUpTo(ViewRecords, MaxViewLen) }
  /\ historySnapshots = << >>
  /\ income = EmptyStr
  /\ targetSavings = EmptyStr
  /\ selectedMonth = 1
  /\ categories = DefaultSession
  /\ newCategory = EmptyName
  /\ phase = "boot"
  /\ effectPending = FALSE
  /\ now = 1
  /\ ids = 0
  /\ last = Done("none", "none", 0)

NextViews ==
  \/ Mount
  \/ PersistEffect

SpecViews == InitViews /\ [][NextViews]_vars

\* the totals, over the amounts typed into the income field and the first MaxIndex
\* category fields and over the two snapshots of one blob: one without categories,
\* one with two categories of equal amount
TotalsValues == {EmptyStr, -1} \cup (0 .. MaxAmount)

TotalsBlob ==
  Blob("array",
       << WithCategories(Stored(1, 1, 2, 1), TRUE, << >>),
          WithCategories(Stored(2, 2, 2, 1), TRUE,
                         << [name |-> Name(1, FALSE), amount |-> 2],
                            [name |-> Name(2, FALSE), amount |-> 2] >>) >>)

InitTotals ==
  /\ storage = TotalsBlob
  /\ historySnapshots = << >>
  /\ income = EmptyStr
  /\ targetSavings = EmptyStr
  /\ selectedMonth = 1
  /\ categories = DefaultSession
  /\ newCategory = EmptyName
  /\ phase = "boot"
  /\ effectPending = FALSE
  /\ now = 1
  /\ ids = 0
  /\ last = Done("none", "none", 0)

NextTotals ==
  \/ Mount
  \/ PersistEffect
  \/ \E v \in TotalsValues : setIncome(v)
  \/ \E i \in 1 .. MaxIndex, v \in TotalsValues : updateCategoryAmount(i, v)
  \/ \E k \in 1 .. 2 : handleLoadSnapshot(k)

SpecTotals == InitTotals /\ [][NextTotals]_vars

\* the category list of the form, over a first visit and over a blob of two
\* snapshots: one with the categories Food and food, one with Food and a custom one
NewCategoryValues ==
  { EmptyName, Padded(EmptyName), Name(7, FALSE), Padded(Name(7, TRUE)),
    Name(1, TRUE), Name(9, FALSE) }

CategoriesBlob ==
  Blob("array",
       << WithCategories(Stored(1, 1, 2, 1), TRUE,
                         << [name |-> Name(1, FALSE), amount |-> 1],
                            [name |-> Name(1, TRUE), amount |-> 2] >>),
          WithCategories(Stored(2, 2, 2, 1), TRUE,
                         << [name |-> Name(1, FALSE), amount |-> 1],
                            [name |-> Padded(Name(7, FALSE)), amount |-> 2] >>) >>)

InitSession ==
  /\ storage \in { Blob("absent", << >>), CategoriesBlob }
  /\ historySnapshots = << >>
  /\ income = EmptyStr
  /\ targetSavings = EmptyStr
  /\ selectedMonth = 1
  /\ categories = DefaultSession
  /\ newCategory = EmptyName
  /\ phase = "boot"
  /\ effectPending = FALSE
  /\ now = 1
  /\ ids = 0
  /\ last = Done("none", "none", 0)

NextSession ==
  \/ Mount
  \/ PersistEffect
  \/ \E nm \in NewCategoryValues : setNewCategory(nm)
  \/ addCategory
  \/ \E i \in 1 .. (Len(DEFAULT_CATEGORIES) + 2) : removeCategory(i)
  \/ \E v \in AmountValues : updateCategoryAmount(1, v)
  \/ \E k \in 1 .. 2 : handleLoadSnapshot(k)

SpecSession == InitSession /\ [][NextSession]_vars

\* ================================================================ claims
MonthsDistinct(history) ==
  \A i, j \in DOMAIN history : i # j => history[i].month # history[j].month

IndexesOfMonth(history, month) == { i \in DOMAIN history : history[i].month = month }

\* the input session has a negative, non-empty income, target or category amount
HasNegativeInput ==
  \/ (income # EmptyStr /\ income # NaN /\ income < 0)
  \/ (targetSavings # EmptyStr /\ targetSavings # NaN /\ targetSavings < 0)
  \/ \E i \in DOMAIN categories :
       categories[i].amount # EmptyStr /\ categories[i].amount # NaN /\ categories[i].amount < 0

\* this step is the event handler op: handlers run on an idle App, and the two
\* other steps that leave last alone need a pending effect or move the clock
HandlerStep(op) == Idle /\ now' = now /\ last'.op = op

\* this step is handleSaveSnapshot on a session that passes the month and
\* validation checks
ValidSaveStep == HandlerStep("save") /\ selectedMonth # 0 /\ ~HasNegativeInput

\* C1: in every reachable state of the history collection, whatever blob it was
\* loaded from and whatever saves, deletes and clears followed, no two snapshots
\* have the same month.
C1_NoTwoSnapshotsShareMonth == MonthsDistinct(historySnapshots)

\* after an overwrite: one snapshot for the month, the original's id, the new
\* save's fields, the same number of snapshots
OverwritePost ==
  /\ Cardinality(IndexesOfMonth(historySnapshots', selectedMonth)) = 1
  /\ Len(historySnapshots') = Len(historySnapshots)
  /\ \A i \in IndexesOfMonth(historySnapshots', selectedMonth) :
       /\ historySnapshots'[i].id =
            historySnapshots[FindByMonth(historySnapshots, selectedMonth)].id
       /\ historySnapshots'[i].income = parsedIncome
       /\ historySnapshots'[i].targetSavings = parsedTargetSavings
       /\ historySnapshots'[i].categories = categoryTotals
       /\ historySnapshots'[i].totalExpense = totalExpense
       /\ historySnapshots'[i].savings = savings
       /\ historySnapshots'[i].savingsRate = savingsRate
       /\ historySnapshots'[i].createdAt = now

\* C2: a confirmed save for a month that already has a snapshot leaves exactly
\* one snapshot for that month, with the id of the original and every other field
\* from the new save, and the same number of snapshots.
C2_OverwriteKeepsOneWithOriginalId ==
  [][ ( /\ ValidSaveStep
        /\ last'.arg = 1
        /\ IndexesOfMonth(historySnapshots, selectedMonth) # {} )
      => OverwritePost ]_vars

IdsDistinct(history) ==
  \A i, j \in DOMAIN history : i # j => history[i].id # history[j].id

\* C2 holds of the overwrite itself: it fails only from a collection that
\* already holds a month or an id twice
C2_OverwriteFromWellKeyed ==
  [][ ( /\ ValidSaveStep
        /\ last'.arg = 1
        /\ MonthsDistinct(historySnapshots) /\ IdsDistinct(historySnapshots)
        /\ IndexesOfMonth(historySnapshots, selectedMonth) # {} )
      => OverwritePost ]_vars

\* C3 as claimed: once a save, delete or clear has returned, the persisted blob is
\* the serialization of the collection in memory.
C3_PersistedBeforeReturn ==
  (phase = "ready" /\ last.op \in {"save", "delete", "clear"})
    => storage = JSONstringify(historySnapshots)

\* C3 amended: the collection is written whole by the persist effect that follows
\* the re-render; whenever no persist effect is pending the persisted blob is the
\* serialization of the collection in memory.
C3_PersistedOnceEffectRan ==
  (phase = "ready" /\ ~effectPending) => storage = JSONstringify(historySnapshots)

C3_Witness ==
  /\ phase = "ready" /\ ~effectPending
  /\ last.op = "save" /\ last.res = "added"
  /\ Len(historySnapshots) >= 2

\* this step is the useState initializer running loadHistoryFromStorage
MountStep == phase = "boot" /\ phase' = "ready"

EmptyArrayBlob == Blob("array", << >>)

\* C4 as claimed: loading a blob that is present but is not the JSON text of an
\* array returns the empty collection and rewrites the blob to the empty array.
C4_MalformedBlobResets ==
  [][ (MountStep /\ storage.kind \in {"empty", "garbage", "nonarray"})
      => (historySnapshots' = << >> /\ storage' = EmptyArrayBlob) ]_vars

\* C4 amended: loading a blob that is present, not empty and not the JSON text of
\* an array returns the empty collection and rewrites the blob to the empty array;
\* loading the empty string returns the empty collection and leaves the blob as it
\* is.  The load returns in every case.
C4_NonEmptyMalformedBlobResets ==
  [][ MountStep
      => /\ storage.kind \in {"garbage", "nonarray"}
              => (historySnapshots' = << >> /\ storage' = EmptyArrayBlob)
         /\ storage.kind = "empty"
              => (historySnapshots' = << >> /\ storage' = storage) ]_vars

C4_Witness ==
  /\ last.op = "load" /\ last.res \in {"garbage", "nonarray"}
  /\ effectPending
  /\ historySnapshots = << >>
  /\ storage = EmptyArrayBlob

\* an element that is an object with a non-empty string month
HasMonth(raw) == raw.obj /\ raw.month # NotString /\ raw.month # 0

C6_DeclinedOverwriteIsNoOp ==
  [][ ( /\ ValidSaveStep
        /\ last'.arg = 0
        /\ IndexesOfMonth(historySnapshots, selectedMonth) # {} )
      => UNCHANGED << historySnapshots, storage, session >> ]_vars

C6_Witness ==
  /\ last.op = "save" /\ last.res = "declined" /\ last.arg = 0
  /\ IndexesOfMonth(historySnapshots, selectedMonth) # {}

Elements(list) == { list[i] : i \in DOMAIN list }

\* C7: a save with an empty month or with a negative input changes neither the
\* collection nor the blob, and no save adds a snapshot with an empty month or a
\* negative income, target or category amount.
C7_InvalidSaveRejected ==
  [][ HandlerStep("save")
      => /\ (selectedMonth = 0 \/ HasNegativeInput)
              => UNCHANGED << historySnapshots, storage >>
         /\ \A s \in Elements(historySnapshots') \ Elements(historySnapshots) :
              /\ s.month # 0
              /\ s.income >= 0
              /\ s.targetSavings >= 0
              /\ \A i \in DOMAIN s.categories : s.categories[i].amount >= 0 ]_vars

C7_Witness ==
  /\ last.op = "save" /\ last.res = "rejected"
  /\ selectedMonth # 0
  /\ targetSavings = -1
  /\ income = EmptyStr
  /\ \A i \in DOMAIN categories : categories[i].amount = EmptyStr

\* C8: a delete leaves exactly the snapshots with another id, unchanged and in
\* order; with no snapshot of that id the collection is unchanged; the input
\* session is unchanged.
C8_DeleteRemovesThatIdOnly ==
  [][ HandlerStep("delete")
      => LET id == last'.arg
             others == { i \in DOMAIN historySnapshots : historySnapshots[i].id # id }
         IN /\ Len(historySnapshots') = Cardinality(others)
            /\ \A i \in others :
                 historySnapshots'[Cardinality({ j \in others : j <= i })]
                   = historySnapshots[i]
            /\ others = DOMAIN historySnapshots => historySnapshots' = historySnapshots
            /\ UNCHANGED session ]_vars

C8_Witness ==
  /\ last.op = "delete" /\ last.res = "removed"
  /\ Len(historySnapshots) >= 1
  /\ \A i \in DOMAIN historySnapshots : historySnapshots[i].id # last.arg

\* C9: clearing an empty collection changes neither the collection nor the blob;
\* a clear of a non-empty collection that the user confirms empties the
\* collection, and the blob its persist effect leaves is the empty array.
C9_ClearEmptiesCollectionAndBlob ==
  [][ /\ (HandlerStep("clear") /\ Len(historySnapshots) = 0)
           => UNCHANGED << historySnapshots, storage >>
      /\ (HandlerStep("clear") /\ Len(historySnapshots) > 0 /\ last'.arg = 1)
           => historySnapshots' = << >>
      /\ (last.op = "clear" /\ last.res = "cleared" /\ effectPending /\ ~effectPending')
           => storage' = EmptyArrayBlob ]_vars

C9_Witness ==
  /\ last.op = "clear" /\ last.res = "cleared"
  /\ ~effectPending
  /\ historySnapshots = << >>
  /\ storage = EmptyArrayBlob

\* C10: for every reachable collection, persisting it and loading it again gives
\* the same snapshots with the same fields in the same order.
C10_ReloadRestoresCollection ==
  (phase = "ready" /\ ~effectPending)
    => loadHistoryFromStorage(storage, ids, now).history = historySnapshots

AllFinite(s) ==
  /\ IsFinite(s.income) /\ IsFinite(s.targetSavings) /\ IsFinite(s.totalExpense)
  /\ IsFinite(s.savings) /\ IsFinite(s.createdAt) /\ s.savingsRate.d > 0
  /\ \A i \in DOMAIN s.categories : IsFinite(s.categories[i].amount)

\* C10 holds of the collections whose numbers are all finite: a snapshot is lost
\* in the round trip only through a NaN or an infinity, which JSON writes as null
C10_ReloadRestoresFiniteCollection ==
  (phase = "ready" /\ ~effectPending
     /\ \A i \in DOMAIN historySnapshots : AllFinite(historySnapshots[i]))
    => loadHistoryFromStorage(storage, ids, now).history = historySnapshots

\* ------------------------------------------------------------------ C11
Count(list, x) == Cardinality({ i \in DOMAIN list : list[i] = x })

\* the two lists hold the same snapshots, each as often in one as in the other
IsPermutation(p, q) ==
  /\ Len(p) = Len(q)
  /\ \A i \in DOMAIN q : Count(p, q[i]) = Count(q, q[i])

MonthsOf(list) == [i \in DOMAIN list |-> list[i].month]

\* C11: the most-recent-first view is a permutation of the whole history collection,
\* ordered by month descending and, among snapshots of one month, by createdAt
\* descending; a history of the months 1, 3, 2 is shown as 3, 2, 1
C11_SortedHistoryMostRecentFirst ==
  phase = "ready" =>
    /\ IsPermutation(sortedHistory, historySnapshots)
    /\ \A i, j \in DOMAIN sortedHistory :
         i < j =>
           \/ sortedHistory[i].month > sortedHistory[j].month
           \/ /\ sortedHistory[i].month = sortedHistory[j].month
              /\ sortedHistory[i].createdAt >= sortedHistory[j].createdAt
    /\ MonthsOf(historySnapshots) = << 1, 3, 2 >> => MonthsOf(sortedHistory) = << 3, 2, 1 >>

\* a loaded history of the months 1, 3, 2
C11_Witness ==
  /\ phase = "ready"
  /\ MonthsOf(historySnapshots) = << 1, 3, 2 >>
  /\ sortedHistory # historySnapshots

\* ------------------------------------------------------------------ C12
Reverse(list) == [i \in DOMAIN list |-> list[Len(list) + 1 - i]]

\* the (month, savings) pairs of the most-recent-first view
RecentPairs == [i \in DOMAIN sortedHistory |-> TrendPair(sortedHistory[i])]

\* one trend pair per snapshot, however few, in the order of month ascending and,
\* within a month, of createdAt ascending
TrendIsAscendingProjection ==
  /\ Len(trendData) = Len(historySnapshots)
  /\ IsPermutation(trendData, [i \in DOMAIN historySnapshots |-> TrendPair(historySnapshots[i])])
  /\ \E order \in [DOMAIN historySnapshots -> DOMAIN historySnapshots] :
       /\ \A i, j \in DOMAIN historySnapshots : i # j => order[i] # order[j]
       /\ \A i \in DOMAIN historySnapshots : trendData[i] = TrendPair(historySnapshots[order[i]])
       /\ \A i, j \in DOMAIN historySnapshots :
            i < j =>
              \/ historySnapshots[order[i]].month < historySnapshots[order[j]].month
              \/ /\ historySnapshots[order[i]].month = historySnapshots[order[j]].month
                 /\ historySnapshots[order[i]].createdAt <= historySnapshots[order[j]].createdAt

\* C12: the trend series holds one (month, savings) pair per snapshot of the history,
\* none for an empty history, ordered by month ascending then createdAt ascending, and
\* it is exactly the reverse of the (month, savings) pairs of the most-recent-first view
C12_TrendIsReverseOfRecentView ==
  phase = "ready" =>
    /\ TrendIsAscendingProjection
    /\ trendData = Reverse(RecentPairs)

\* C12, its ordering part: what is left of the claim once the reversal is set aside
C12_TrendOrdered == phase = "ready" => TrendIsAscendingProjection

\* C12 from a history in which no two snapshots agree in both month and createdAt
C12_ReverseWithoutTies ==
  (/\ phase = "ready"
   /\ \A i, j \in DOMAIN historySnapshots :
        i # j => \/ historySnapshots[i].month # historySnapshots[j].month
                 \/ historySnapshots[i].createdAt # historySnapshots[j].createdAt)
    => trendData = Reverse(RecentPairs)

\* ------------------------------------------------------------------ C13
\* a non-negative integer
IsCount(x) == x \in Nat /\ IsFinite(x) /\ x # Null /\ x # EmptyStr

RECURSIVE PlainSum(_)
PlainSum(list) == IF list = << >> THEN 0 ELSE Head(list).amount + PlainSum(Tail(list))

\* C13: for an income and category amounts that are non-negative integers, totalExpense
\* is the sum of the amounts, savings is income - totalExpense, and savingsRate is
\* savings / income * 100 when income > 0 and 0 otherwise
C13_TotalsOfNonNegativeInputs ==
  (/\ IsCount(parsedIncome)
   /\ \A i \in DOMAIN categoryTotals : IsCount(categoryTotals[i].amount))
    => /\ totalExpense = PlainSum(categoryTotals)
       /\ savings = parsedIncome - totalExpense
       /\ IF parsedIncome > 0
            THEN /\ savingsRate.d > 0
                 /\ savingsRate.n * parsedIncome = savings * 100 * savingsRate.d
            ELSE savingsRate = RateZero

\* an income of 2 against 2 on Food and 1 on Travel: 1 overspent, a rate of -50
C13_Witness ==
  /\ income = 2
  /\ Len(categories) = 6
  /\ categories[1].amount = 2
  /\ categories[2].amount = 1
  /\ totalExpense = 3
  /\ savings = -1
  /\ savingsRate = [n |-> -50, d |-> 1]

\* ------------------------------------------------------------------ C14
Sentinel == [name |-> NotAvailable, amount |-> 0]

\* the first category whose amount no category exceeds and no earlier category equals
IsFirstMaximal(c) ==
  \E i \in DOMAIN categoryTotals :
    /\ c = categoryTotals[i]
    /\ \A j \in DOMAIN categoryTotals : categoryTotals[j].amount <= categoryTotals[i].amount
    /\ \A j \in 1 .. (i - 1) : categoryTotals[j].amount < categoryTotals[i].amount

\* C14: highestCategory is the first category in input order whose amount is maximal,
\* the earliest winning a tie, and the N/A category with amount 0 when the list is
\* empty or every amount is 0
C14_HighestIsFirstMaximal ==
  IF \A i \in DOMAIN categoryTotals : categoryTotals[i].amount = 0
    THEN highestCategory = Sentinel
    ELSE IsFirstMaximal(highestCategory)

\* C14 as amended: the N/A category also when the amounts are zero or negative, that
\* is whenever no amount is greater than 0
C14_HighestIsFirstMaximalAboveZero ==
  IF \A i \in DOMAIN categoryTotals : categoryTotals[i].amount <= 0
    THEN highestCategory = Sentinel
    ELSE IsFirstMaximal(highestCategory)

\* a tie of Travel and Shopping above Food, and a negative amount further on
C14_Witness ==
  /\ Len(categories) = 6
  /\ categoryTotals[1].amount = 1
  /\ categoryTotals[2].amount = 2
  /\ categoryTotals[3].amount = 2
  /\ categoryTotals[4].amount = -1
  /\ highestCategory = categoryTotals[2]

\* the snapshot without categories is loaded into the form: nothing to compare
C14_WitnessEmpty == phase = "ready" /\ categories = << >> /\ highestCategory = Sentinel

\* ------------------------------------------------------------------ C15
NamesNonEmpty(list) == \A i \in DOMAIN list : Trim(list[i].name) # EmptyName

NamesDistinct(list) ==
  \A i, j \in DOMAIN list :
    i # j => ToLowerCase(list[i].name) # ToLowerCase(list[j].name)

\* C15: in every state of the form, after any sequence of addCategory, removeCategory,
\* updateCategoryAmount and handleLoadSnapshot of a snapshot of the history, loaded
\* blobs included, the category names are non-empty and pairwise distinct when
\* compared without regard to case
C15_CategoryNamesDistinct ==
  phase = "ready" => NamesNonEmpty(categories) /\ NamesDistinct(categories)

\* C15, its first half: no category of the form has an empty name
C15_CategoryNamesNonEmpty == phase = "ready" => NamesNonEmpty(categories)

\* C15 over a history whose snapshots each have distinct category names
C15_DistinctFromWellNamedHistory ==
  (/\ phase = "ready"
   /\ \A k \in DOMAIN historySnapshots : NamesDistinct(historySnapshots[k].categories))
    => NamesDistinct(categories)

\* ------------------------------------------------------------------ C16
NonNegative(history) ==
  \A i \in DOMAIN history : history[i].income >= 0 /\ history[i].targetSavings >= 0

\* C16: every snapshot of the history, whatever blob was loaded and whatever was saved,
\* deleted or cleared since, has income >= 0 and targetSavings >= 0
C16_SnapshotsNonNegative == phase = "ready" => NonNegative(historySnapshots)

\* C16 for the handlers alone: no save, delete or clear brings a negative income or
\* target into a history that has none
C16_HandlersKeepNonNegative ==
  [][(Idle /\ NonNegative(historySnapshots)) => NonNegative(historySnapshots')]_vars

\* ------------------------------------------------------------------ C17
RemovedBy(id) == Cardinality({ i \in DOMAIN historySnapshots : historySnapshots[i].id = id })

\* C17: in every reachable state the ids of the snapshots are pairwise distinct, so that
\* a delete removes at most one entry and an overwrite replaces exactly one
C17_IdsPairwiseDistinct ==
  phase = "ready" =>
    /\ IdsDistinct(historySnapshots)
    /\ \A id \in 1 .. (NumBlobIds + MaxIds) : RemovedBy(id) <= 1

\* C17 for the handlers alone: no save, delete or clear gives two snapshots one id
C17_HandlersKeepIdsDistinct ==
  [][(Idle /\ IdsDistinct(historySnapshots)) => IdsDistinct(historySnapshots')]_vars

====
